---- MODULE Spec2Model ----
(***************************************************************************)
(* A model of masonry's context types (masonry/src/contexts.rs): the       *)
(* widget tree held in two parallel arenas, the per-widget WidgetState     *)
(* flags, the global RenderRootState, and the methods widgets call on the  *)
(* MutateCtx / EventCtx / UpdateCtx / LayoutCtx / ComposeCtx they are      *)
(* handed during a pass.                                                   *)
(*                                                                         *)
(* The live contexts of a pass form a stack (ctx_stack): a child context   *)
(* borrows its parent mutably, so only the innermost context can be used   *)
(* until its wrapper is dropped.                                           *)
(***************************************************************************)
EXTENDS Integers, Sequences, FiniteSets, TLC

\* ------------------------------------------------------------------ bounds
\* Number of widgets of the initial tree (ids 1..NumWidgets, widget 1 the root).
NumWidgets == 4
\* Flag-changing context calls (request_*, children_changed, remove_child,
\* set_disabled, set_stashed) made over one behaviour.
MaxOps == 2
\* Calls counted by n_ops up to which run_layout, place_child and
\* set_child_translation can still be called.
MaxLayoutOps == 3
\* Length of RenderRootState::mutate_callbacks.
MaxCallbacks == 3

Ids == 1..NumWidgets
Root == 1
\* Option<WidgetId>::None
None == 0
\* parent of a widget that is not in an arena
Absent == -1

\* The initial tree: widget n is a child of widget n \div 2 (1 -> {2,3}, 2 -> {4,5}..).
InitParent(n) == IF n = Root THEN None ELSE n \div 2

VARIABLES
    debug_assertions,       \* cfg(debug_assertions): the build of the program
    state_arena,            \* arena of WidgetState: id -> parent id, None (root) or Absent
    widget_arena,           \* arena of Box<dyn Widget>: id -> parent id, None or Absent
    wstate,                 \* id -> WidgetState
    focused_widget,         \* RenderRootState::focused_widget
    next_focused_widget,    \* RenderRootState::next_focused_widget
    pointer_capture_target, \* RenderRootState::pointer_capture_target
    mutate_callbacks,       \* RenderRootState::mutate_callbacks (the ids, in order)
    scenes,                 \* RenderRootState::scenes (the keys)
    pass,                   \* the pass in progress, "none" between passes
    allow_pointer_capture,  \* EventCtx::allow_pointer_capture of the event dispatched
    ctx_stack,              \* the live contexts, outermost first
    panicked,               \* the pass was aborted by a panic
    violation,              \* what the last call reported: panic message or logged errors
    last_call,              \* the last call among the EventCtx methods, set_disabled
                            \* and the update-disabled pass: [op, id, arg], arg the
                            \* target it set, or for request_focus and
                            \* capture_pointer the value it superseded
    n_ops,                  \* flag-changing and layout calls made so far
    executed,               \* ids of the callbacks run since the last pass, in order
    laid_out,               \* children run_layout returned for in this layout pass
    pending,                \* ids whose WidgetPod still holds its widget (not registered)
    registered_ids,         \* RegisterCtx::registered_ids (cfg(debug_assertions) only)
    query_scopes            \* ids a QueryCtx (a WidgetRef) is live for

vars == <<debug_assertions, state_arena, widget_arena, wstate, focused_widget,
          next_focused_widget, pointer_capture_target, mutate_callbacks, scenes,
          pass, allow_pointer_capture, ctx_stack, panicked, violation, last_call,
          n_ops, executed, laid_out, pending, registered_ids, query_scopes>>

\* ------------------------------------------------------------ WidgetState
NeedsFlags == {"needs_paint", "needs_accessibility", "needs_layout", "needs_compose",
               "needs_anim", "needs_update_disabled", "needs_update_stashed"}

RequestFlags == {"request_paint", "request_accessibility", "request_layout",
                 "request_compose", "request_anim"}

\* The non-finite coordinates of an f64.
NaN == -100
Inf == 100
IsNan(x) == x = NaN
IsInfinite(x) == x = Inf
ZeroPoint == [x |-> 0, y |-> 0]
ZeroRect == [x0 |-> 0, y0 |-> 0, x1 |-> 0, y1 |-> 0]

\* A widget's state once every pass has run over it (nothing requested).
CleanState(explicitly_disabled, disabled) ==
    [ needs_paint |-> FALSE, request_paint |-> FALSE,
      needs_accessibility |-> FALSE, request_accessibility |-> FALSE,
      needs_layout |-> FALSE, request_layout |-> FALSE,
      needs_compose |-> FALSE, request_compose |-> FALSE,
      needs_anim |-> FALSE, request_anim |-> FALSE,
      needs_update_disabled |-> FALSE, needs_update_stashed |-> FALSE,
      children_changed |-> FALSE, update_focus_chain |-> FALSE,
      has_focus |-> FALSE,
      is_explicitly_disabled |-> explicitly_disabled, is_disabled |-> disabled,
      is_explicitly_stashed |-> FALSE, is_stashed |-> FALSE,
      is_expecting_place_child_call |-> FALSE, translation_changed |-> FALSE,
      origin |-> ZeroPoint, translation |-> ZeroPoint,
      size |-> ZeroPoint, local_paint_rect |-> ZeroRect, clip_path |-> None ]

\* The flags that merge_up carries from a child to its parent.
MergedFlags ==
    { "needs_layout", "needs_compose", "needs_paint", "needs_anim",
      "needs_accessibility", "needs_update_disabled", "needs_update_stashed",
      "has_focus", "children_changed", "update_focus_chain" }

\* A merge_up that also carries the request flags up.
merge_up_with_requests(parent, child) ==
    [ f \in DOMAIN parent |->
        IF f \in MergedFlags \cup RequestFlags THEN parent[f] \/ child[f] ELSE parent[f] ]

\* WidgetState::merge_up: OR the child's dirty flags into the parent's.
merge_up(parent, child) ==
    [ parent EXCEPT
        !.needs_layout = @ \/ child.needs_layout,
        !.needs_compose = @ \/ child.needs_compose,
        !.needs_paint = @ \/ child.needs_paint,
        !.needs_anim = @ \/ child.needs_anim,
        !.needs_accessibility = @ \/ child.needs_accessibility,
        !.needs_update_disabled = @ \/ child.needs_update_disabled,
        !.needs_update_stashed = @ \/ child.needs_update_stashed,
        !.has_focus = @ \/ child.has_focus,
        !.children_changed = @ \/ child.children_changed,
        !.update_focus_chain = @ \/ child.update_focus_chain ]

request_render(s) ==
    [ s EXCEPT !.request_paint = TRUE, !.needs_paint = TRUE,
               !.needs_accessibility = TRUE, !.request_accessibility = TRUE ]

\* A request_paint_only that behaves as request_render does.
request_paint_only_with_accessibility(s) ==
    [ s EXCEPT !.request_paint = TRUE, !.needs_paint = TRUE,
               !.needs_accessibility = TRUE, !.request_accessibility = TRUE ]

request_paint_only(s) ==
    [ s EXCEPT !.request_paint = TRUE, !.needs_paint = TRUE ]

request_accessibility_update(s) ==
    [ s EXCEPT !.needs_accessibility = TRUE, !.request_accessibility = TRUE ]

request_layout(s) ==
    [ s EXCEPT !.request_layout = TRUE, !.needs_layout = TRUE ]

request_compose(s) ==
    [ s EXCEPT !.needs_compose = TRUE, !.request_compose = TRUE ]

request_anim_frame(s) ==
    [ s EXCEPT !.request_anim = TRUE, !.needs_anim = TRUE ]

\* A children_changed that does not request a layout.
children_changed_no_layout(s) ==
    [s EXCEPT !.children_changed = TRUE, !.update_focus_chain = TRUE]

children_changed(s) ==
    request_layout([ s EXCEPT !.children_changed = TRUE, !.update_focus_chain = TRUE ])

\* A set_disabled that applies the new value to the effective state at once.
set_disabled_applied(s, disabled) ==
    [ s EXCEPT !.needs_update_disabled = TRUE, !.is_explicitly_disabled = disabled,
               !.is_disabled = disabled ]

\* A set_disabled that does not request the disabled-state update.
set_disabled_unflagged(s, disabled) == [s EXCEPT !.is_explicitly_disabled = disabled]

set_disabled(s, disabled) ==
    [ s EXCEPT !.needs_update_disabled = TRUE, !.is_explicitly_disabled = disabled ]

\* A set_stashed that asks for the stashed-state update on every call.
set_stashed_always_flagged(child_state, stashed) ==
    [ child_state EXCEPT !.needs_update_stashed = TRUE,
                         !.is_explicitly_stashed = stashed ]

\* The child's state after the parent's context ran set_stashed(child, stashed).
set_stashed(child_state, stashed) ==
    IF child_state.is_explicitly_stashed # stashed
    THEN [ child_state EXCEPT !.needs_update_stashed = TRUE,
                              !.is_explicitly_stashed = stashed ]
    ELSE child_state

\* ------------------------------------------------------------- tree arena
\* ArenaMutChildren::get_child_mut / get_child / into_child: found iff `child`
\* is a child of the node the context is scoped to.
get_child(arena, scope, child) == arena[child] = scope

Children(arena, n) == { c \in Ids : arena[c] = n }

RECURSIVE Subtree(_, _)
Subtree(arena, n) ==
    {n} \cup UNION { Subtree(arena, c) : c \in Children(arena, n) }

Descendants(arena, n) == Subtree(arena, n) \ {n}

\* ArenaMutChildren::remove_child: the arena without `child` and its subtree.
arena_remove_child(arena, child) ==
    [ c \in Ids |-> IF c \in Subtree(arena, child) THEN Absent ELSE arena[c] ]

\* --------------------------------------------------------------- contexts
\* The context types whose methods are generated by each impl_context_method!.
\* The request setters generated for PaintCtx as well.
FlagCtxsWithPaint == {"mutate", "event", "update", "paint"}

FlagCtxs == {"mutate", "event", "update"}
MutCtxs == {"mutate", "event", "update", "layout", "compose"}
RawCtxs == {"event", "update", "layout"}

Top == ctx_stack[Len(ctx_stack)]
\* widget_state.id of the innermost live context
Cur == Top.id
Live == ~panicked /\ ctx_stack # <<>>
\* A RawWrapper only hands out `&Ctx`: no `&mut self` method can be called on it.
CanMutate == Top.wrapper # "RawWrapper"

Frame(id, wrapper, handled) == [id |-> id, wrapper |-> wrapper, is_handled |-> handled]

Call(op, id, arg) == last_call' = [op |-> op, id |-> id, arg |-> arg]

\* `.expect("...: child not found")`: a panic in every build.
Panic(msg) ==
    /\ panicked' = TRUE
    /\ violation' = {msg}

Ok ==
    /\ panicked' = panicked
    /\ violation' = {}

globals == <<focused_widget, next_focused_widget, pointer_capture_target,
             mutate_callbacks, scenes>>
arenas == <<state_arena, widget_arena>>
\* What only RegisterCtx and QueryCtx change.
scopevars == <<pending, registered_ids, query_scopes>>
passvars == <<debug_assertions, pass, allow_pointer_capture, laid_out, scopevars>>

\* ------------------------------------------------ narrowing to a child
\* A get_mut that does not check that the widget is a child.
GetMutUnchecked(child) ==
    /\ pass = "mutate" /\ Live /\ CanMutate
    /\ ctx_stack' = Append(ctx_stack, Frame(child, "WidgetMut", FALSE))
    /\ Ok
    /\ UNCHANGED <<arenas, wstate, globals, passvars, n_ops, executed, last_call>>

\* MutateCtx::get_mut: a WidgetMut whose context has parent_widget_state = Some(..).
GetMut(child) ==
    /\ pass = "mutate" /\ Live /\ CanMutate
    /\ UNCHANGED last_call
    /\ IF get_child(state_arena, Cur, child) /\ get_child(widget_arena, Cur, child)
       THEN /\ ctx_stack' = Append(ctx_stack, Frame(child, "WidgetMut", FALSE))
            /\ Ok
       ELSE /\ Panic("get_mut: child not found")
            /\ UNCHANGED ctx_stack
    /\ UNCHANGED <<arenas, wstate, globals, passvars, n_ops, executed>>

\* $SomeCtx::get_raw_ref (EventCtx, UpdateCtx, LayoutCtx): `..*self` copies is_handled.
GetRawRef(child) ==
    /\ pass \in RawCtxs /\ Live /\ CanMutate
    /\ UNCHANGED last_call
    /\ IF get_child(state_arena, Cur, child) /\ get_child(widget_arena, Cur, child)
       THEN /\ ctx_stack' = Append(ctx_stack, Frame(child, "RawWrapper", Top.is_handled))
            /\ Ok
       ELSE /\ Panic("get_raw_ref: child not found")
            /\ UNCHANGED ctx_stack
    /\ UNCHANGED <<arenas, wstate, globals, passvars, n_ops, executed>>

\* A get_raw_mut on the context below the innermost one: the parent opens a
\* scope while the scope of one of its children is live.
GetRawMutFromParent(child) ==
    LET scope == IF Len(ctx_stack) > 1 THEN ctx_stack[Len(ctx_stack) - 1].id ELSE Cur
    IN  /\ pass \in RawCtxs /\ Live /\ CanMutate
        /\ get_child(state_arena, scope, child) /\ get_child(widget_arena, scope, child)
        /\ ctx_stack' = Append(ctx_stack, Frame(child, "RawWrapperMut", Top.is_handled))
        /\ Ok
        /\ UNCHANGED <<arenas, wstate, globals, passvars, n_ops, executed, last_call>>

\* $SomeCtx::get_raw_mut (EventCtx, UpdateCtx, LayoutCtx).
GetRawMut(child) ==
    /\ pass \in RawCtxs /\ Live /\ CanMutate
    /\ UNCHANGED last_call
    /\ IF get_child(state_arena, Cur, child) /\ get_child(widget_arena, Cur, child)
       THEN /\ ctx_stack' = Append(ctx_stack, Frame(child, "RawWrapperMut", Top.is_handled))
            /\ Ok
       ELSE /\ Panic("get_raw_mut: child not found")
            /\ UNCHANGED ctx_stack
    /\ UNCHANGED <<arenas, wstate, globals, passvars, n_ops, executed>>

\* The parent's WidgetState once a wrapper around `child` is dropped.
\* RawWrapperMut::drop merges the child's state up; RawWrapper has no Drop impl.
raw_wrapper_mut_drop(parent_state, child_state) == merge_up(parent_state, child_state)

\* WidgetMut::drop: merge_up into parent_widget_state when it is Some.
widget_mut_drop(parent_state, child_state) == merge_up(parent_state, child_state)

ParentFrame == ctx_stack[Len(ctx_stack) - 1]

DropWrapper ==
    /\ Live /\ Len(ctx_stack) > 1
    /\ Top.wrapper \in {"WidgetMut", "RawWrapper", "RawWrapperMut"}
    /\ ctx_stack' = SubSeq(ctx_stack, 1, Len(ctx_stack) - 1)
    /\ wstate' =
         CASE Top.wrapper = "RawWrapperMut" ->
                [wstate EXCEPT ![ParentFrame.id] = raw_wrapper_mut_drop(@, wstate[Cur])]
           [] Top.wrapper = "WidgetMut" ->
                [wstate EXCEPT ![ParentFrame.id] = widget_mut_drop(@, wstate[Cur])]
           [] OTHER -> wstate
    /\ UNCHANGED <<arenas, globals, passvars, panicked, violation, last_call,
                   n_ops, executed, laid_out>>

\* ----------------------------------------- QueryCtx, PaintCtx, AccessCtx
ReadOnlyCtxs == {"query", "paint", "access"}

\* QueryCtx is Copy and QueryCtx::get takes it by value: the scope it is called
\* on stays live next to the child's.
query_get(scopes, child) == scopes \cup {child}

QueryGet(scope, child) ==
    /\ pass = "query" /\ Live
    /\ scope \in query_scopes
    /\ IF get_child(state_arena, scope, child) /\ get_child(widget_arena, scope, child)
       THEN /\ query_scopes' = query_get(query_scopes, child)
            /\ Ok
       ELSE /\ Panic("get: child not found")
            /\ UNCHANGED query_scopes
    /\ UNCHANGED <<arenas, wstate, globals, debug_assertions, pass, allow_pointer_capture,
                   laid_out, pending, registered_ids, ctx_stack, last_call, n_ops,
                   executed>>

\* A WidgetRef goes out of scope.
QueryDrop(scope) ==
    /\ pass = "query" /\ Live
    /\ scope \in query_scopes \ {Root}
    /\ query_scopes' = query_scopes \ {scope}
    /\ UNCHANGED <<arenas, wstate, globals, debug_assertions, pass, allow_pointer_capture,
                   laid_out, pending, registered_ids, ctx_stack, panicked, violation,
                   last_call, n_ops, executed>>

\* AccessCtx::get_raw_ref
AccessGetRawRef(child) ==
    /\ pass = "access" /\ Live /\ CanMutate
    /\ UNCHANGED last_call
    /\ IF get_child(state_arena, Cur, child) /\ get_child(widget_arena, Cur, child)
       THEN /\ ctx_stack' = Append(ctx_stack, Frame(child, "RawWrapper", FALSE))
            /\ Ok
       ELSE /\ Panic("get_raw_ref: child not found")
            /\ UNCHANGED ctx_stack
    /\ UNCHANGED <<arenas, wstate, globals, passvars, n_ops, executed>>

\* is_disabled(): the effective disabled state of widget id.
is_disabled(id) == wstate[id].is_disabled

\* A status getter called on a read-only context: the answer is recorded in
\* last_call (1 for true).
IsDisabled(scope) ==
    /\ pass \in ReadOnlyCtxs /\ Live
    /\ IF pass = "query" THEN scope \in query_scopes ELSE scope = Cur
    /\ Call("is_disabled", scope, IF is_disabled(scope) THEN 1 ELSE 0)
    /\ Ok
    /\ UNCHANGED <<arenas, wstate, globals, passvars, ctx_stack, n_ops, executed>>

\* ------------------------------------------------------------ getters
\* The eight context types.
AllCtxs == {"mutate", "query", "event", "update", "layout", "compose", "paint", "access"}

\* GETTERS: generated for every context type.
GettersCtxs == AllCtxs

\* The layout getters generated for LayoutCtx as well.
GetLayoutCtxsWithLayout == AllCtxs

\* GET LAYOUT: "Methods on all context types except LayoutCtx".
GetLayoutCtxs == AllCtxs \ {"layout"}

\* GET STATUS: "Methods on all context types except LayoutCtx".
GetStatusCtxs == AllCtxs \ {"layout"}

\* A `&self` getter: it records its answer in last_call and changes nothing else.
Getter(ctxs, op, answer) ==
    /\ pass \in ctxs /\ Live
    /\ Call(op, Cur, answer)
    /\ Ok
    /\ UNCHANGED <<arenas, wstate, globals, passvars, ctx_stack, n_ops, executed>>

\* widget_id()
WidgetId == Getter(GettersCtxs, "widget_id", Cur)

\* size(): the width is recorded as the answer.
GetSize == Getter(GetLayoutCtxs, "size", wstate[Cur].size.x)

\* is_stashed()
IsStashed == Getter(GetStatusCtxs, "is_stashed", IF wstate[Cur].is_stashed THEN 1 ELSE 0)

\* ------------------------------------------------------- UPDATE FLAGS
\* Methods on MutateCtx, EventCtx and UpdateCtx that change the current
\* widget's state only.
FlagCall(op, arg, new_state) ==
    /\ pass \in FlagCtxs /\ Live /\ CanMutate
    /\ n_ops < MaxOps
    /\ n_ops' = n_ops + 1
    /\ UNCHANGED last_call
    /\ Ok
    /\ wstate' = [wstate EXCEPT ![Cur] = new_state]
    /\ UNCHANGED <<arenas, globals, passvars, ctx_stack, executed>>

RequestRender == FlagCall("request_render", None, request_render(wstate[Cur]))
RequestPaintOnly == FlagCall("request_paint_only", None, request_paint_only(wstate[Cur]))
RequestAccessibilityUpdate ==
    FlagCall("request_accessibility_update", None, request_accessibility_update(wstate[Cur]))
RequestLayout == FlagCall("request_layout", None, request_layout(wstate[Cur]))
RequestCompose == FlagCall("request_compose", None, request_compose(wstate[Cur]))
RequestAnimFrame == FlagCall("request_anim_frame", None, request_anim_frame(wstate[Cur]))
ChildrenChanged == FlagCall("children_changed", None, children_changed(wstate[Cur]))
\* set_disabled is recorded in last_call (arg 1 for true, 0 for false).
SetDisabled(disabled) ==
    /\ pass \in FlagCtxs /\ Live /\ CanMutate
    /\ n_ops < MaxOps
    /\ n_ops' = n_ops + 1
    /\ Call("set_disabled", Cur, IF disabled THEN 1 ELSE 0)
    /\ Ok
    /\ wstate' = [wstate EXCEPT ![Cur] = set_disabled(@, disabled)]
    /\ UNCHANGED <<arenas, globals, passvars, ctx_stack, executed>>

\* remove_child: the scene store after the child's entry is removed.
scenes_remove(store, id) == store \ {id}

RemoveChild(child) ==
    /\ pass \in FlagCtxs /\ Live /\ CanMutate
    /\ n_ops < MaxOps
    /\ n_ops' = n_ops + 1
    /\ UNCHANGED last_call
    /\ IF ~get_child(state_arena, Cur, child)
       THEN /\ Panic("remove_child: child not found")
            /\ UNCHANGED <<arenas, wstate, scenes>>
       ELSE /\ state_arena' = arena_remove_child(state_arena, child)
            /\ IF ~get_child(widget_arena, Cur, child)
               THEN /\ Panic("remove_child: child not found")
                    /\ UNCHANGED <<widget_arena, wstate, scenes>>
               ELSE /\ widget_arena' = arena_remove_child(widget_arena, child)
                    /\ scenes' = scenes_remove(scenes, child)
                    /\ wstate' = [wstate EXCEPT ![Cur] = children_changed(@)]
                    /\ Ok
    /\ UNCHANGED <<focused_widget, next_focused_widget, pointer_capture_target,
                   mutate_callbacks, passvars, ctx_stack, executed>>

\* ------------------------------------------------------ OTHER METHODS
\* Methods on every context type except PaintCtx and AccessCtx.
SetStashed(child, stashed) ==
    /\ pass \in MutCtxs /\ Live /\ CanMutate
    /\ n_ops < MaxOps
    /\ n_ops' = n_ops + 1
    /\ UNCHANGED last_call
    /\ IF get_child(state_arena, Cur, child)
       THEN /\ wstate' = [wstate EXCEPT ![child] = set_stashed(@, stashed)]
            /\ Ok
       ELSE /\ Panic("get_child_state_mut: child not found")
            /\ UNCHANGED wstate
    /\ UNCHANGED <<arenas, globals, passvars, ctx_stack, executed>>

\* A push that puts the callback at the front of the queue.
push_callback_front(queue, id) == <<id>> \o queue

\* mutate_callbacks.push(MutateCallback { id, .. })
push_callback(queue, id) == Append(queue, id)

\* The id mutate_self_later tags its callback with.
mutate_self_later_id(self_id) == self_id

\* The id mutate_later tags its callback with.
mutate_later_id(self_id, child) == child

MutateSelfLater ==
    /\ pass \in MutCtxs /\ Live /\ CanMutate
    /\ Len(mutate_callbacks) < MaxCallbacks
    /\ UNCHANGED last_call
    /\ Ok
    /\ mutate_callbacks' = push_callback(mutate_callbacks, mutate_self_later_id(Cur))
    /\ UNCHANGED <<arenas, wstate, focused_widget, next_focused_widget,
                   pointer_capture_target, scenes, passvars, ctx_stack, n_ops, executed>>

\* mutate_later only reads child.id(): the pod is not looked up in the arena.
MutateLater(child) ==
    /\ pass \in MutCtxs /\ Live /\ CanMutate
    /\ Len(mutate_callbacks) < MaxCallbacks
    /\ UNCHANGED last_call
    /\ Ok
    /\ mutate_callbacks' = push_callback(mutate_callbacks, mutate_later_id(Cur, child))
    /\ UNCHANGED <<arenas, wstate, focused_widget, next_focused_widget,
                   pointer_capture_target, scenes, passvars, ctx_stack, n_ops, executed>>

\* ------------------------------------------------------------- EventCtx
EventCall(op, arg) ==
    /\ pass = "event" /\ Live /\ CanMutate
    /\ Call(op, Cur, arg)

\* A capture_pointer that keeps a capture that is already held.
capture_pointer_if_free(target, id) == IF target = None THEN id ELSE target

\* pointer_capture_target after capture_pointer by widget `id`.
capture_pointer(target, id) == id

CapturePointer ==
    /\ EventCall("capture_pointer", pointer_capture_target)
    /\ IF debug_assertions /\ ~allow_pointer_capture
       THEN /\ Panic("event does not allow pointer capture")
            /\ UNCHANGED pointer_capture_target
       ELSE /\ pointer_capture_target' = capture_pointer(pointer_capture_target, Cur)
            /\ Ok
    /\ UNCHANGED <<arenas, wstate, focused_widget, next_focused_widget, mutate_callbacks,
                   scenes, passvars, ctx_stack, n_ops, executed>>

\* A release_pointer that only the widget holding the capture can use.
release_pointer_by_holder(target) == IF target = Cur THEN None ELSE target

release_pointer(target) == None

\* release_pointer is recorded in last_call with the target it found.
ReleasePointer ==
    /\ EventCall("release_pointer", pointer_capture_target)
    /\ Ok
    /\ pointer_capture_target' = release_pointer(pointer_capture_target)
    /\ UNCHANGED <<arenas, wstate, focused_widget, next_focused_widget, mutate_callbacks,
                   scenes, passvars, ctx_stack, n_ops, executed>>

SetHandled ==
    /\ EventCall("set_handled", None)
    /\ Ok
    /\ ctx_stack' = [ctx_stack EXCEPT ![Len(ctx_stack)].is_handled = TRUE]
    /\ UNCHANGED <<arenas, wstate, globals, passvars, n_ops, executed>>

\* EventCtx::is_handled reads the context's own is_handled field; it takes &self,
\* so it is also callable through a RawWrapper. The answer is recorded in
\* last_call (1 for true, 0 for false).
IsHandled ==
    /\ pass = "event" /\ Live
    /\ Call("is_handled", Cur, IF Top.is_handled THEN 1 ELSE 0)
    /\ Ok
    /\ UNCHANGED <<arenas, wstate, globals, passvars, ctx_stack, n_ops, executed>>

\* A request_focus that does nothing when the caller is the focused widget.
request_focus_unless_focused(next, id) == IF focused_widget = id THEN next ELSE id

\* next_focused_widget after request_focus by widget `id`.
request_focus(next, id) == id

\* next_focused_widget after set_focus(target).
set_focus(next, target) == target

\* A resign_focus that clears the staged target whoever calls it.
resign_focus_by_anyone(next, has_focus) == None

\* next_focused_widget after resign_focus by a widget whose has_focus() is `has_focus`.
resign_focus(next, has_focus) == IF has_focus THEN None ELSE next

RequestFocus ==
    /\ EventCall("request_focus", next_focused_widget)
    /\ Ok
    /\ next_focused_widget' = request_focus(next_focused_widget, Cur)
    /\ UNCHANGED <<arenas, wstate, focused_widget, pointer_capture_target,
                   mutate_callbacks, scenes, passvars, ctx_stack, n_ops, executed>>

SetFocus(target) ==
    /\ EventCall("set_focus", target)
    /\ Ok
    /\ next_focused_widget' = set_focus(next_focused_widget, target)
    /\ UNCHANGED <<arenas, wstate, focused_widget, pointer_capture_target,
                   mutate_callbacks, scenes, passvars, ctx_stack, n_ops, executed>>

ResignFocus ==
    /\ EventCall("resign_focus", next_focused_widget)
    /\ panicked' = panicked
    /\ violation' = IF wstate[Cur].has_focus THEN {}
                    ELSE {"resign_focus can only be called by the currently focused widget"}
    /\ next_focused_widget' = resign_focus(next_focused_widget, wstate[Cur].has_focus)
    /\ UNCHANGED <<arenas, wstate, focused_widget, pointer_capture_target,
                   mutate_callbacks, scenes, passvars, ctx_stack, n_ops, executed>>

\* ------------------------------------------------------------ geometry
\* f64 arithmetic on the coordinates the model uses (small integers, NaN, Inf).
FAdd(a, b) ==
    IF IsNan(a) \/ IsNan(b) THEN NaN
    ELSE IF IsInfinite(a) \/ IsInfinite(b) THEN Inf
    ELSE a + b
\* f64::min / f64::max: a NaN operand is ignored.
FMin(a, b) == IF IsNan(a) THEN b ELSE IF IsNan(b) THEN a ELSE IF a < b THEN a ELSE b
FMax(a, b) == IF IsNan(a) THEN b ELSE IF IsNan(b) THEN a ELSE IF a > b THEN a ELSE b
\* f64 `!=`: NaN differs from everything, itself included.
FNe(a, b) == IsNan(a) \/ IsNan(b) \/ a # b

Pt(x, y) == [x |-> x, y |-> y]
point_ne(p, q) == FNe(p.x, q.x) \/ FNe(p.y, q.y)
point_add(p, v) == Pt(FAdd(p.x, v.x), FAdd(p.y, v.y))
is_finite(p) == ~(IsNan(p.x) \/ IsInfinite(p.x) \/ IsNan(p.y) \/ IsInfinite(p.y))

\* Rect::union
rect_union(r, q) ==
    [ x0 |-> FMin(r.x0, q.x0), y0 |-> FMin(r.y0, q.y0),
      x1 |-> FMax(r.x1, q.x1), y1 |-> FMax(r.y1, q.y1) ]

\* Rect + Vec2
rect_add(r, v) ==
    [ x0 |-> FAdd(r.x0, v.x), y0 |-> FAdd(r.y0, v.y),
      x1 |-> FAdd(r.x1, v.x), y1 |-> FAdd(r.y1, v.y) ]

\* Size::to_rect
size_to_rect(size) == [ x0 |-> 0, y0 |-> 0, x1 |-> size.x, y1 |-> size.y ]

\* WidgetState::paint_rect: the local paint rect in the parent's coordinate space.
paint_rect(s) == rect_add(s.local_paint_rect, s.origin)

\* Where a widget ends up in its parent: the origin it was placed at plus the
\* translation set in the compose pass.
effective_origin(s) == point_add(s.origin, s.translation)

\* The inputs widgets pass to place_child, set_child_translation and return
\* from layout.
Origins == { Pt(0, 0), Pt(1, 0), Pt(NaN, 0), Pt(0, Inf) }
Translations == { Pt(0, 0), Pt(0, 1), Pt(Inf, 0) }
Sizes == { Pt(1, 1), Pt(2, 1) }

\* ------------------------------------------------------------ LayoutCtx
\* run_layout -> run_layout_on: the child's layout method runs on a LayoutCtx
\* scoped to the child.
RunLayoutCall(child) ==
    /\ pass = "layout" /\ Live /\ CanMutate
    /\ n_ops < MaxLayoutOps
    /\ n_ops' = n_ops + 1
    /\ IF get_child(state_arena, Cur, child) /\ get_child(widget_arena, Cur, child)
       THEN /\ ctx_stack' = Append(ctx_stack, Frame(child, "layout", FALSE))
            /\ Ok
       ELSE /\ Panic("run_layout: child not found")
            /\ UNCHANGED ctx_stack
    /\ UNCHANGED <<arenas, wstate, globals, passvars, last_call, executed>>

\* A run_layout that does not ask for the place_child call.
run_layout_done_not_expecting(child_state, size) ==
    [ child_state EXCEPT !.size = size, !.needs_layout = FALSE ]

\* The child's state once its layout returned `size`.
run_layout_done(child_state, size) ==
    [ child_state EXCEPT
        !.size = size,
        !.needs_layout = FALSE,
        !.is_expecting_place_child_call = TRUE,
        !.local_paint_rect = rect_union(@, size_to_rect(size)) ]

\* The children of `parent` whose layout ran and that were not placed since; a
\* stashed child does not have to be placed.
missing_place_child(arena, ws, parent) ==
    { c \in Children(arena, parent) :
        ws[c].is_expecting_place_child_call /\ ~ws[c].is_stashed }

\* A layout return that checks nothing.
layout_return_reports_nothing(arena, ws, parent) == {}

\* What is reported when the layout method of `parent` returns.
layout_return_reports(arena, ws, parent) ==
    IF missing_place_child(arena, ws, parent) # {}
    THEN {"layout: missing call to place_child"}
    ELSE {}

\* The layout method of the current widget returns `size` to run_layout_on. A
\* report panics in a debug build and is logged in a release build.
RunLayoutReturn(size) ==
    /\ pass = "layout" /\ Live /\ Len(ctx_stack) > 1
    /\ Top.wrapper = "layout"
    /\ LET reports == layout_return_reports(state_arena, wstate, Cur)
           done == run_layout_done(wstate[Cur], size)
       IN  IF debug_assertions /\ reports # {}
           THEN /\ panicked' = TRUE
                /\ violation' = reports
                /\ UNCHANGED <<ctx_stack, wstate, laid_out>>
           ELSE /\ panicked' = panicked
                /\ violation' = reports
                /\ ctx_stack' = SubSeq(ctx_stack, 1, Len(ctx_stack) - 1)
                /\ wstate' = [wstate EXCEPT ![Cur] = done,
                                            ![ParentFrame.id] = merge_up(@, done)]
                /\ laid_out' = laid_out \cup {Cur}
    /\ UNCHANGED <<arenas, globals, debug_assertions, pass, allow_pointer_capture,
                   last_call, n_ops, executed, scopevars>>

\* A skip_layout that also marks the child's layout as computed.
skip_layout_marks_done(child_state) ==
    [child_state EXCEPT !.request_layout = FALSE, !.needs_layout = FALSE]

\* A skip_layout that clears the child's needs_layout and keeps its request.
skip_layout_clears_needs(child_state) == [child_state EXCEPT !.needs_layout = FALSE]

\* skip_layout: the child's state after the call.
skip_layout(child_state) == [child_state EXCEPT !.request_layout = FALSE]

SkipLayout(child) ==
    /\ pass = "layout" /\ Live /\ CanMutate
    /\ n_ops < MaxLayoutOps
    /\ n_ops' = n_ops + 1
    /\ Call("skip_layout", Cur, child)
    /\ IF get_child(state_arena, Cur, child)
       THEN /\ wstate' = [wstate EXCEPT ![child] = skip_layout(@)]
            /\ Ok
       ELSE /\ Panic("get_child_state_mut: child not found")
            /\ UNCHANGED wstate
    /\ UNCHANGED <<arenas, globals, passvars, ctx_stack, executed>>

\* An assert_layout_done that reports nothing.
assert_layout_done_silent(child_state, method_name) == {}

\* assert_layout_done: what it reports for a child in state child_state.
assert_layout_done(child_state, method_name) ==
    IF child_state.needs_layout
    THEN {method_name \o ": child before computing its layout"}
    ELSE {}

\* An assert_placed that reports nothing.
assert_placed_silent(child_state, method_name) == {}

\* assert_placed
assert_placed(child_state, method_name) ==
    IF child_state.is_expecting_place_child_call
    THEN {method_name \o ": child before placing it"}
    ELSE {}

\* A layout accessor: reads the child's geometry after its checks, whose reports are `reports`
\* (assert_layout_done first). It changes no widget state.
LayoutAccessor(method_name, child, reports) ==
    /\ pass = "layout" /\ Live /\ CanMutate
    /\ n_ops < MaxLayoutOps
    /\ n_ops' = n_ops + 1
    /\ Call(method_name, Cur, child)
    /\ IF ~(get_child(state_arena, Cur, child) /\ get_child(widget_arena, Cur, child))
       THEN Panic("get_child_state: child not found")
       ELSE IF debug_assertions /\ reports # {}
            THEN /\ panicked' = TRUE
                 /\ violation' =
                        IF assert_layout_done(wstate[child], method_name) # {}
                        THEN assert_layout_done(wstate[child], method_name)
                        ELSE reports
            ELSE /\ panicked' = panicked
                 /\ violation' = reports
    /\ UNCHANGED <<arenas, wstate, globals, passvars, ctx_stack, executed>>

ComputeInsetsFromChild(child) ==
    LayoutAccessor("compute_insets_from_child", child,
        assert_layout_done(wstate[child], "compute_insets_from_child")
            \cup assert_placed(wstate[child], "compute_insets_from_child"))

ChildBaselineOffset(child) ==
    LayoutAccessor("child_baseline_offset", child,
        assert_layout_done(wstate[child], "child_baseline_offset"))

ChildLayoutRect(child) ==
    LayoutAccessor("child_layout_rect", child,
        assert_layout_done(wstate[child], "child_layout_rect")
            \cup assert_placed(wstate[child], "child_layout_rect"))

ChildPaintRect(child) ==
    LayoutAccessor("child_paint_rect", child,
        assert_layout_done(wstate[child], "child_paint_rect")
            \cup assert_placed(wstate[child], "child_paint_rect"))

ChildSize(child) ==
    LayoutAccessor("child_size", child,
        assert_layout_done(wstate[child], "child_size"))

\* place_child's check of the origin.
check_origin(origin) ==
    IF IsNan(origin.x) \/ IsInfinite(origin.x) \/ IsNan(origin.y) \/ IsInfinite(origin.y)
    THEN {"place_child: invalid origin"}
    ELSE {}

\* A place_child that marks the translation changed on every call.
place_child_always_changed(child_state, origin) ==
    [child_state EXCEPT !.origin = origin, !.translation_changed = TRUE,
                        !.is_expecting_place_child_call = FALSE]

\* place_child: the child's state after it is placed at origin.
place_child(child_state, origin) ==
    LET moved == IF point_ne(origin, child_state.origin)
                 THEN [child_state EXCEPT !.origin = origin, !.translation_changed = TRUE]
                 ELSE child_state
    IN  [moved EXCEPT !.is_expecting_place_child_call = FALSE]

\* place_child: the parent's state after the child's paint rect is added to it.
place_child_parent(parent_state, child_state) ==
    [ parent_state EXCEPT
        !.local_paint_rect = rect_union(@, paint_rect(child_state)) ]

\* debug_panic!: the first report panics under cfg(debug_assertions); otherwise
\* every report is logged as an error and the method goes on.
PlaceChild(child, origin) ==
    /\ pass = "layout" /\ Live /\ CanMutate
    /\ n_ops < MaxLayoutOps
    /\ n_ops' = n_ops + 1
    /\ IF ~(get_child(state_arena, Cur, child) /\ get_child(widget_arena, Cur, child))
       THEN /\ Panic("get_child_state: child not found")
            /\ UNCHANGED wstate
       ELSE LET not_done == assert_layout_done(wstate[child], "place_child")
                reports == not_done \cup check_origin(origin)
            IN  IF debug_assertions /\ reports # {}
                THEN /\ panicked' = TRUE
                     /\ violation' = IF not_done # {} THEN not_done ELSE reports
                     /\ UNCHANGED wstate
                ELSE /\ panicked' = panicked
                     /\ violation' = reports
                     /\ LET placed == place_child(wstate[child], origin)
                        IN  wstate' = [wstate EXCEPT
                                         ![child] = placed,
                                         ![Cur] = place_child_parent(@, placed)]
    /\ UNCHANGED <<arenas, globals, passvars, ctx_stack, last_call, executed>>

\* The clip paths the model uses.
ClipPaths == { size_to_rect(Pt(1, 1)), size_to_rect(Pt(2, 1)) }

\* LayoutCtx::set_clip_path
set_clip_path(s, path) ==
    [ s EXCEPT !.clip_path = path, !.request_accessibility = TRUE,
               !.needs_accessibility = TRUE, !.needs_paint = TRUE ]

\* LayoutCtx::clear_clip_path
clear_clip_path(s) ==
    [ s EXCEPT !.clip_path = None, !.request_accessibility = TRUE,
               !.needs_accessibility = TRUE, !.needs_paint = TRUE ]

SetClipPath(path) ==
    /\ pass = "layout" /\ Live /\ CanMutate
    /\ n_ops < MaxLayoutOps
    /\ n_ops' = n_ops + 1
    /\ Call("set_clip_path", Cur, None)
    /\ Ok
    /\ wstate' = [wstate EXCEPT ![Cur] = set_clip_path(@, path)]
    /\ UNCHANGED <<arenas, globals, passvars, ctx_stack, executed>>

ClearClipPath ==
    /\ pass = "layout" /\ Live /\ CanMutate
    /\ n_ops < MaxLayoutOps
    /\ n_ops' = n_ops + 1
    /\ Call("clear_clip_path", Cur, None)
    /\ Ok
    /\ wstate' = [wstate EXCEPT ![Cur] = clear_clip_path(@)]
    /\ UNCHANGED <<arenas, globals, passvars, ctx_stack, executed>>

\* ------------------------------------------------------------ ComposeCtx
\* The compose pass recurses into a child with a ComposeCtx scoped to it and
\* merges the child's flags up when it comes back.
ComposeChild(child) ==
    /\ pass = "compose" /\ Live
    /\ get_child(state_arena, Cur, child) /\ get_child(widget_arena, Cur, child)
    /\ ctx_stack' = Append(ctx_stack, Frame(child, "compose", FALSE))
    /\ UNCHANGED <<arenas, wstate, globals, passvars, panicked, violation, last_call,
                   n_ops, executed>>

ComposeReturn ==
    /\ pass = "compose" /\ Live /\ Len(ctx_stack) > 1
    /\ ctx_stack' = SubSeq(ctx_stack, 1, Len(ctx_stack) - 1)
    /\ wstate' = [wstate EXCEPT ![ParentFrame.id] = merge_up(@, wstate[Cur])]
    /\ UNCHANGED <<arenas, globals, passvars, panicked, violation, last_call,
                   n_ops, executed>>

\* set_child_translation's check of the translation.
check_translation(translation) ==
    IF IsNan(translation.x) \/ IsInfinite(translation.x)
       \/ IsNan(translation.y) \/ IsInfinite(translation.y)
    THEN {"set_child_translation: invalid translation"}
    ELSE {}

\* set_child_translation: the child's state after the call.
set_child_translation(child_state, translation) ==
    IF point_ne(translation, child_state.translation)
    THEN [child_state EXCEPT !.translation = translation, !.translation_changed = TRUE]
    ELSE child_state

SetChildTranslation(child, translation) ==
    /\ pass = "compose" /\ Live
    /\ n_ops < MaxLayoutOps
    /\ n_ops' = n_ops + 1
    /\ IF ~(get_child(state_arena, Cur, child) /\ get_child(widget_arena, Cur, child))
       THEN /\ Panic("get_child_state_mut: child not found")
            /\ UNCHANGED wstate
       ELSE LET reports == check_translation(translation)
            IN  IF debug_assertions /\ reports # {}
                THEN /\ panicked' = TRUE
                     /\ violation' = reports
                     /\ UNCHANGED wstate
                ELSE /\ panicked' = panicked
                     /\ violation' = reports
                     /\ wstate' = [wstate EXCEPT
                                     ![child] = set_child_translation(@, translation)]
    /\ UNCHANGED <<arenas, globals, passvars, ctx_stack, last_call, executed>>

\* ------------------------------------------------------------ pass drivers
\* The host enters the tree at the root with the context of the pass. Deferred
\* callbacks run once the pass that queued them is over, before the next pass.
BeginPass(kind, allow) ==
    /\ pass = "none" /\ ~panicked
    /\ mutate_callbacks = <<>>
    /\ pass' = kind
    /\ allow_pointer_capture' = allow
    /\ ctx_stack' = <<Frame(Root, "root", FALSE)>>
    /\ executed' = <<>>
    /\ laid_out' = {}
    /\ query_scopes' = IF kind = "query" THEN {Root} ELSE {}
    /\ UNCHANGED <<debug_assertions, arenas, wstate, globals, panicked, violation,
                   last_call, n_ops, pending, registered_ids>>

\* The method the pass called on the root returns. In a layout pass it is the
\* root's layout method, and what it left unplaced is reported.
EndPass ==
    /\ pass # "none" /\ Live /\ Len(ctx_stack) = 1
    /\ LET reports == IF pass = "layout"
                      THEN layout_return_reports(state_arena, wstate, Root)
                      ELSE {}
       IN  IF debug_assertions /\ reports # {}
           THEN /\ panicked' = TRUE
                /\ violation' = reports
                /\ UNCHANGED <<pass, allow_pointer_capture, ctx_stack, query_scopes>>
           ELSE /\ panicked' = panicked
                /\ violation' = IF reports # {} THEN reports ELSE violation
                /\ pass' = "none"
                /\ allow_pointer_capture' = FALSE
                /\ ctx_stack' = <<>>
                /\ query_scopes' = {}
    /\ UNCHANGED <<debug_assertions, arenas, wstate, globals,
                   last_call, n_ops, executed, laid_out, pending, registered_ids>>

\* The mutate pass: takes the queue and runs every callback, first to last.
run_mutate_pass(queue) == queue

RunMutatePass ==
    /\ pass = "none" /\ ~panicked
    /\ mutate_callbacks # <<>>
    /\ executed' = run_mutate_pass(mutate_callbacks)
    /\ mutate_callbacks' = <<>>
    /\ UNCHANGED last_call
    /\ Ok
    /\ UNCHANGED <<arenas, wstate, focused_widget, next_focused_widget,
                   pointer_capture_target, scenes, passvars, ctx_stack, n_ops>>

RECURSIVE FocusChain(_, _)
\* The focused widget and its ancestors.
FocusChain(arena, id) ==
    IF id \notin Ids \/ arena[id] = Absent THEN {}
    ELSE {id} \cup FocusChain(arena, arena[id])

\* End of the event cycle: the staged focus target becomes the focused widget.
RunUpdateFocusPass ==
    /\ pass = "none" /\ ~panicked
    /\ mutate_callbacks = <<>>
    /\ focused_widget # next_focused_widget
    /\ focused_widget' = next_focused_widget
    /\ wstate' = [ n \in Ids |->
                     [wstate[n] EXCEPT !.has_focus =
                         n \in FocusChain(state_arena, next_focused_widget)] ]
    /\ UNCHANGED last_call
    /\ Ok
    /\ UNCHANGED <<arenas, next_focused_widget, pointer_capture_target, mutate_callbacks,
                   scenes, passvars, ctx_stack, n_ops, executed>>

RECURSIVE update_disabled_for_widget(_, _, _, _)
\* The update-disabled pass below widget n: is_disabled is recomputed top-down as
\* explicit OR parent's; a subtree that did not ask for it and whose inherited
\* value is unchanged is skipped.
update_disabled_for_widget(arena, ws, n, parent_disabled) ==
    LET disabled == ws[n].is_explicitly_disabled \/ parent_disabled
    IN  IF ~ws[n].needs_update_disabled /\ disabled = ws[n].is_disabled
        THEN ws
        ELSE LET kids == Children(arena, n)
                 sub(c) == update_disabled_for_widget(arena, ws, c, disabled)
             IN  [ m \in Ids |->
                     IF m = n
                     THEN [ws[n] EXCEPT !.is_disabled = disabled,
                                        !.needs_update_disabled = FALSE]
                     ELSE IF \E c \in kids : m \in Subtree(arena, c)
                     THEN sub(CHOOSE c \in kids : m \in Subtree(arena, c))[m]
                     ELSE ws[m] ]

RunUpdateDisabledPass ==
    /\ pass = "none" /\ ~panicked
    /\ mutate_callbacks = <<>>
    /\ wstate' = update_disabled_for_widget(state_arena, wstate, Root, FALSE)
    /\ Call("run_update_disabled_pass", None, None)
    /\ Ok
    /\ UNCHANGED <<arenas, globals, passvars, ctx_stack, n_ops, executed>>

\* ----------------------------------------------------------- RegisterCtx
\* WidgetState::new: the state of a widget that no pass has visited yet, with
\* everything requested.
NewState ==
    [ CleanState(FALSE, FALSE) EXCEPT
        !.needs_paint = TRUE, !.request_paint = TRUE,
        !.needs_accessibility = TRUE, !.request_accessibility = TRUE,
        !.needs_layout = TRUE, !.request_layout = TRUE,
        !.needs_compose = TRUE, !.request_compose = TRUE,
        !.needs_anim = TRUE, !.request_anim = TRUE,
        !.needs_update_disabled = TRUE, !.needs_update_stashed = TRUE,
        !.children_changed = TRUE, !.update_focus_chain = TRUE ]

\* ArenaMutChildren::insert_child: `child` becomes a child of the node `scope`.
arena_insert_child(arena, scope, child) == [arena EXCEPT ![child] = scope]

\* A take_inner that hands the widget out again after it was taken.
take_inner_again(pods, child) == TRUE

\* child.take_inner(): whether the pod still holds its widget (Some).
take_inner(pods, child) == child \in pods

\* A register_child that does not insert the new WidgetState.
register_child_state_skipped(arena, scope, id) == arena

\* self.widget_children.insert_child(id, Box::new(widget))
register_child_widget(arena, scope, id) == arena_insert_child(arena, scope, id)

\* self.widget_state_children.insert_child(id, state)
register_child_state(arena, scope, id) == arena_insert_child(arena, scope, id)

\* #[cfg(debug_assertions)] self.registered_ids.push(child.id())
register_child_ids(ids, id, build) == IF build THEN Append(ids, id) ELSE ids

\* The WidgetPods widget `parent` holds: its children that are registered or
\* still to be registered (remove_child consumes the pod).
Pods(parent) ==
    { c \in Ids : InitParent(c) = parent /\ (c \in pending \/ state_arena[c] = parent) }

\* Widget::register_children is called with a RegisterCtx on the children of
\* `parent`.
BeginRegister(parent) ==
    /\ pass = "none" /\ ~panicked
    /\ mutate_callbacks = <<>>
    /\ state_arena[parent] # Absent
    /\ pass' = "register"
    /\ ctx_stack' = <<Frame(parent, "register", FALSE)>>
    /\ registered_ids' = <<>>
    /\ UNCHANGED <<debug_assertions, arenas, wstate, globals, panicked, violation,
                   last_call, n_ops, executed, laid_out, allow_pointer_capture,
                   pending, query_scopes>>

RegisterChild(child) ==
    /\ pass = "register" /\ Live
    /\ child \in Pods(Cur)
    /\ n_ops < MaxOps
    /\ n_ops' = n_ops + 1
    /\ Ok
    /\ IF take_inner(pending, child)
       THEN /\ pending' = pending \ {child}
            /\ registered_ids' = register_child_ids(registered_ids, child, debug_assertions)
            /\ widget_arena' = register_child_widget(widget_arena, Cur, child)
            /\ state_arena' = register_child_state(state_arena, Cur, child)
            /\ wstate' = [wstate EXCEPT ![child] = NewState]
       ELSE UNCHANGED <<pending, registered_ids, arenas, wstate>>
    /\ UNCHANGED <<globals, debug_assertions, pass, allow_pointer_capture, laid_out,
                   query_scopes, ctx_stack, last_call, executed>>

\* ------------------------------------------------------------------ Init
RECURSIVE AncestorsOf(_)
\* The ancestors of widget n in the initial tree.
AncestorsOf(n) ==
    IF InitParent(n) = None THEN {} ELSE {InitParent(n)} \cup AncestorsOf(InitParent(n))

RECURSIVE InitDisabled(_, _)
InitDisabled(explicit, n) ==
    IF n = None THEN FALSE ELSE n \in explicit \/ InitDisabled(explicit, InitParent(n))

\* The tree between two frames, with the widget states `ws`; the widgets of
\* `unregistered` were added since the last frame: their WidgetPod still holds
\* them and they are in no arena.
InitTreeWith(build, unregistered, ws) ==
    /\ debug_assertions = build
    /\ state_arena = [n \in Ids |-> IF n \in unregistered THEN Absent ELSE InitParent(n)]
    /\ widget_arena = [n \in Ids |-> IF n \in unregistered THEN Absent ELSE InitParent(n)]
    /\ pending = unregistered
    /\ registered_ids = <<>>
    /\ query_scopes = {}
    /\ wstate = ws
    /\ focused_widget = None
    /\ next_focused_widget = None
    /\ pointer_capture_target = None
    /\ mutate_callbacks = <<>>
    /\ scenes = Ids \ unregistered
    /\ pass = "none"
    /\ allow_pointer_capture = FALSE
    /\ ctx_stack = <<>>
    /\ panicked = FALSE
    /\ violation = {}
    /\ last_call = [op |-> "none", id |-> None, arg |-> None]
    /\ n_ops = 0
    /\ executed = <<>>
    /\ laid_out = {}

\* No flag pending; the widgets of `explicit` are explicitly disabled.
InitTree(build, explicit, unregistered) ==
    InitTreeWith(build, unregistered,
                 [n \in Ids |-> CleanState(n \in explicit, InitDisabled(explicit, n))])

\* The tree after a frame in which every pass ran: all widgets registered in both
\* arenas.
InitState(build, explicit) == InitTree(build, explicit, {})

\* Either build, no widget disabled.
Init == \E build \in BOOLEAN : InitState(build, {})

\* Each specification below runs the passes of one family of context methods over
\* the same state; the methods left out of a specification write none of the
\* variables its methods read.

Begin(kinds) ==
    \E kind \in kinds, allow \in BOOLEAN :
        (allow => kind = "event") /\ BeginPass(kind, allow)

\* Narrowing to a child and back: get_mut, get_raw_ref, get_raw_mut, drop.
Narrow ==
    \/ \E child \in Ids : GetMut(child)
    \/ \E child \in Ids : GetRawRef(child)
    \/ \E child \in Ids : GetRawMut(child)
    \/ DropWrapper

\* The dirty flags: the request setters, children_changed, remove_child,
\* set_disabled and set_stashed in the mutate, event and update passes.
Next ==
    \/ Begin(FlagCtxs)
    \/ EndPass
    \/ Narrow
    \/ RequestRender
    \/ RequestPaintOnly
    \/ RequestAccessibilityUpdate
    \/ RequestLayout
    \/ RequestCompose
    \/ RequestAnimFrame
    \/ ChildrenChanged
    \/ \E disabled \in BOOLEAN : SetDisabled(disabled)
    \/ \E child \in Ids : RemoveChild(child)
    \/ \E child \in Ids, stashed \in BOOLEAN : SetStashed(child, stashed)

Spec == Init /\ [][Next]_vars

\* The request setters alone, in the mutate, event and update passes.
NextRequests ==
    \/ Begin(FlagCtxs)
    \/ EndPass
    \/ Narrow
    \/ RequestRender
    \/ RequestPaintOnly
    \/ RequestAccessibilityUpdate
    \/ RequestLayout
    \/ RequestCompose
    \/ RequestAnimFrame

SpecRequests == Init /\ [][NextRequests]_vars

\* The disabled state: set_disabled in the mutate, event and update passes, and
\* the update-disabled pass. Widgets 2 and 4 (a parent and its child) may start
\* explicitly disabled.
InitDisabledWidgets == \E build \in BOOLEAN, explicit \in SUBSET {2, 4} : InitState(build, explicit)

NextDisabled ==
    \/ Begin(FlagCtxs)
    \/ EndPass
    \/ Narrow
    \/ RunUpdateDisabledPass
    \/ \E disabled \in BOOLEAN : SetDisabled(disabled)
    \/ \E child \in Ids : RemoveChild(child)

SpecDisabled == InitDisabledWidgets /\ [][NextDisabled]_vars

\* The children of a widget: lookups, children_changed, remove_child and
\* set_stashed in the mutate, event and update passes.
NextChildren ==
    \/ Begin(FlagCtxs)
    \/ EndPass
    \/ Narrow
    \/ ChildrenChanged
    \/ \E child \in Ids : RemoveChild(child)
    \/ \E child \in Ids, stashed \in BOOLEAN : SetStashed(child, stashed)

SpecChildren == Init /\ [][NextChildren]_vars

\* The event pass, pointer capture: capture_pointer, release_pointer, remove_child.
NextCapture ==
    \/ Begin({"event"})
    \/ EndPass
    \/ \E child \in Ids : GetRawRef(child)
    \/ \E child \in Ids : GetRawMut(child)
    \/ DropWrapper
    \/ CapturePointer
    \/ ReleasePointer
    \/ \E child \in Ids : RemoveChild(child)

SpecCapture == Init /\ [][NextCapture]_vars

\* The event pass, focus: request_focus, set_focus, resign_focus, remove_child, and
\* the focus update that ends the event cycle.
NextFocus ==
    \/ Begin({"event"})
    \/ EndPass
    \/ \E child \in Ids : GetRawRef(child)
    \/ \E child \in Ids : GetRawMut(child)
    \/ DropWrapper
    \/ RunUpdateFocusPass
    \/ RequestFocus
    \/ \E target \in Ids : SetFocus(target)
    \/ ResignFocus
    \/ \E child \in Ids : RemoveChild(child)

SpecFocus == Init /\ [][NextFocus]_vars

\* Layout: request_layout in an event pass, where a widget reaches a child with
\* get_raw_mut, then run_layout and place_child in the layout pass, where it
\* reaches a child with run_layout.
NextLayout ==
    \/ Begin({"event", "layout"})
    \/ EndPass
    \/ pass = "event" /\ \E child \in Ids : GetRawMut(child)
    \/ DropWrapper
    \/ RequestLayout
    \/ \E child \in Ids : RunLayoutCall(child)
    \/ \E size \in Sizes : RunLayoutReturn(size)
    \/ \E child \in Ids, origin \in Origins : PlaceChild(child, origin)

SpecLayout == Init /\ [][NextLayout]_vars

\* Placement: place_child in the layout pass on children whose layout is valid,
\* and set_child_translation in the compose pass.
NextPlace ==
    \/ Begin({"layout", "compose"})
    \/ EndPass
    \/ \E child \in Ids, origin \in Origins : PlaceChild(child, origin)
    \/ \E child \in Ids : ComposeChild(child)
    \/ ComposeReturn
    \/ \E child \in Ids, translation \in Translations :
         SetChildTranslation(child, translation)

SpecPlace == Init /\ [][NextPlace]_vars

\* The layout accessors, next to run_layout and place_child. Widget 2 or its
\* child, widget 4, may start with a layout requested.
InitLayoutRequested ==
    \E build \in BOOLEAN, requested \in {{}, {2}, {4}} :
        InitTreeWith(build, {},
            [ n \in Ids |->
                IF n \in requested THEN request_layout(CleanState(FALSE, FALSE))
                ELSE IF \E r \in requested : n \in AncestorsOf(r)
                     THEN merge_up(CleanState(FALSE, FALSE),
                                   request_layout(CleanState(FALSE, FALSE)))
                     ELSE CleanState(FALSE, FALSE) ])

NextAccessors ==
    \/ Begin({"layout"})
    \/ EndPass
    \/ \E child \in Ids : RunLayoutCall(child)
    \/ \E size \in Sizes : RunLayoutReturn(size)
    \/ \E child \in Ids, origin \in Origins : PlaceChild(child, origin)
    \/ \E child \in Ids : ComputeInsetsFromChild(child)
    \/ \E child \in Ids : ChildBaselineOffset(child)
    \/ \E child \in Ids : ChildLayoutRect(child)
    \/ \E child \in Ids : ChildPaintRect(child)
    \/ \E child \in Ids : ChildSize(child)

SpecAccessors == InitLayoutRequested /\ [][NextAccessors]_vars

\* The clip path: set_clip_path and clear_clip_path in the layout pass, on the
\* root and on the widgets whose layout it runs.
NextClip ==
    \/ Begin({"layout"})
    \/ EndPass
    \/ \E child \in Ids : RunLayoutCall(child)
    \/ \E size \in Sizes : RunLayoutReturn(size)
    \/ \E path \in ClipPaths : SetClipPath(path)
    \/ ClearClipPath

SpecClip == Init /\ [][NextClip]_vars

\* Every context type, entered at the root: the request setters,
\* children_changed, remove_child, set_disabled and the getters.
NextContexts ==
    \/ Begin(AllCtxs)
    \/ EndPass
    \/ RequestRender
    \/ RequestPaintOnly
    \/ RequestAccessibilityUpdate
    \/ RequestLayout
    \/ RequestCompose
    \/ RequestAnimFrame
    \/ ChildrenChanged
    \/ \E child \in Ids : RemoveChild(child)
    \/ \E disabled \in BOOLEAN : SetDisabled(disabled)
    \/ WidgetId
    \/ GetSize
    \/ IsStashed

SpecContexts == Init /\ [][NextContexts]_vars

\* The layout contract: run_layout, place_child and skip_layout, and the return
\* of each layout method. Widget 2 may start with a layout requested and widget
\* 3 may start stashed.
InitLayoutContract ==
    \E build \in BOOLEAN, requested \in BOOLEAN, stashed \in BOOLEAN :
        InitTreeWith(build, {},
            [ n \in Ids |->
                IF n = Root /\ requested
                THEN merge_up(CleanState(FALSE, FALSE),
                              request_layout(CleanState(FALSE, FALSE)))
                ELSE IF n = 2 /\ requested
                THEN request_layout(CleanState(FALSE, FALSE))
                ELSE IF n = 3
                THEN [CleanState(FALSE, FALSE) EXCEPT !.is_explicitly_stashed = stashed,
                                                      !.is_stashed = stashed]
                ELSE CleanState(FALSE, FALSE) ])

NextLayoutContract ==
    \/ Begin({"layout"})
    \/ EndPass
    \/ \E child \in Ids : RunLayoutCall(child)
    \/ \E size \in Sizes : RunLayoutReturn(size)
    \/ \E child \in Ids, origin \in Origins : PlaceChild(child, origin)
    \/ \E child \in Ids : SkipLayout(child)

SpecLayoutContract == InitLayoutContract /\ [][NextLayoutContract]_vars

\* Merge-up: narrowing in the mutate and event passes, with request_layout and
\* request_render as the calls that leave flags to merge.
NextMerge ==
    \/ Begin({"mutate", "event"})
    \/ EndPass
    \/ Narrow
    \/ RequestLayout
    \/ RequestRender

SpecMerge == Init /\ [][NextMerge]_vars

\* The handled flag: set_handled and is_handled in the event pass, on the root's
\* context and on the contexts get_raw_ref and get_raw_mut make for children.
NextHandled ==
    \/ Begin({"event"})
    \/ EndPass
    \/ \E child \in Ids : GetRawRef(child)
    \/ \E child \in Ids : GetRawMut(child)
    \/ DropWrapper
    \/ SetHandled
    \/ IsHandled

SpecHandled == Init /\ [][NextHandled]_vars

\* The flag pairs: every operation of the contexts that writes a request or a
\* needs flag, in the event pass (on the root and, through get_raw_mut, on its
\* child, widget 2) and in the layout pass. Widget 2 or widget 4 may start with
\* a layout requested.
NextFlagPairs ==
    \/ Begin({"event", "layout"})
    \/ EndPass
    \/ pass = "event" /\ Live /\ Cur = Root /\ GetRawMut(2)
    \/ DropWrapper
    \/ RequestRender
    \/ RequestPaintOnly
    \/ RequestAccessibilityUpdate
    \/ RequestLayout
    \/ RequestCompose
    \/ RequestAnimFrame
    \/ ChildrenChanged
    \/ \E child \in Ids : RemoveChild(child)
    \/ \E path \in ClipPaths : SetClipPath(path)
    \/ ClearClipPath
    \/ \E child \in Ids : SkipLayout(child)

SpecFlagPairs == InitLayoutRequested /\ [][NextFlagPairs]_vars

\* Deferred mutation: mutate_self_later and mutate_later in the mutate, event and
\* update passes, and the mutate pass that runs the queue.
NextDefer ==
    \/ Begin(FlagCtxs)
    \/ EndPass
    \/ Narrow
    \/ RunMutatePass
    \/ MutateSelfLater
    \/ \E child \in Ids : MutateLater(child)

SpecDefer == Init /\ [][NextDefer]_vars

\* Scopes: narrowing to a child in the mutate and event passes and on the
\* read-only contexts (QueryCtx, PaintCtx, AccessCtx); request_paint_only as
\* the call that changes a widget.
NextScopes ==
    \/ Begin({"mutate", "event"} \cup ReadOnlyCtxs)
    \/ EndPass
    \/ Narrow
    \/ \E scope \in Ids, child \in Ids : QueryGet(scope, child)
    \/ \E scope \in Ids : QueryDrop(scope)
    \/ \E child \in Ids : AccessGetRawRef(child)
    \/ \E scope \in Ids : IsDisabled(scope)
    \/ RequestPaintOnly

SpecScopes == InitDisabledWidgets /\ [][NextScopes]_vars

\* Registration: some widgets start unregistered, together with the widgets
\* below them; register_child on a RegisterCtx, and remove_child in the mutate
\* pass.
InitUnregistered ==
    \E build \in BOOLEAN :
    \E unregistered \in { U \in SUBSET (Ids \ {Root}) :
                            \A n \in Ids \ {Root} : InitParent(n) \in U => n \in U } :
        InitTree(build, {}, unregistered)

NextRegister ==
    \/ \E parent \in Ids : BeginRegister(parent)
    \/ \E child \in Ids : RegisterChild(child)
    \/ Begin({"mutate"})
    \/ EndPass
    \/ \E child \in Ids : GetMut(child)
    \/ DropWrapper
    \/ \E child \in Ids : RemoveChild(child)

SpecRegister == InitUnregistered /\ [][NextRegister]_vars

\* -------------------------------------------------------------- properties
Present == { n \in Ids : state_arena[n] # Absent }

\* Every nested child scope has been exited: only the context the pass entered
\* the tree with is live, or the pass is over.
ScopesExited == ~panicked /\ Len(ctx_stack) <= 1

\* C1: once the nested child scopes are exited, a needs_X flag that is set on a
\* widget is set on each of its ancestors (for every needs_X flag).
C1_FlagPropagation ==
    ScopesExited =>
        \A n \in Present : \A d \in Descendants(state_arena, n) : \A f \in NeedsFlags :
            wstate[d][f] => wstate[n][f]

\* has_pointer_capture(): whether the pointer is captured by widget id.
has_pointer_capture(id) == pointer_capture_target = id

\* C7: pointer_capture_target never names a widget that was removed from the tree.
C7_CaptureTargetInTree ==
    pointer_capture_target # None => pointer_capture_target \in Present

IsChild(child) == get_child(state_arena, Cur, child) /\ get_child(widget_arena, Cur, child)

C3_CaptureExclusive ==
    /\ [](Cardinality({ n \in Ids : has_pointer_capture(n) }) <= 1)
    /\ [][ CapturePointer =>
             /\ wstate' = wstate
             /\ ~panicked' => /\ pointer_capture_target' = Cur
                              /\ has_pointer_capture(Cur)'
                              /\ \A n \in Ids \ {Cur} : ~has_pointer_capture(n)' ]_vars

\* Widget 3 captured the pointer while widget 2 held it.
C3_Witness ==
    /\ ~panicked
    /\ last_call = [op |-> "capture_pointer", id |-> 3, arg |-> 2]
    /\ has_pointer_capture(3) /\ ~has_pointer_capture(2)

\* is_focused(): whether widget id is the focused widget.
is_focused(id) == focused_widget = id

\* C4: request_focus and set_focus stage their target over whatever was staged,
\* also when the caller is the focused widget; the commit makes the staged
\* target the focus, and at most one widget is focused.
C4_FocusLastWriterWins ==
    /\ [](Cardinality({ n \in Ids : is_focused(n) }) <= 1)
    /\ [][ /\ RequestFocus => next_focused_widget' = Cur
           /\ \A t \in Ids : SetFocus(t) => next_focused_widget' = t
           /\ RunUpdateFocusPass =>
                 /\ focused_widget' = next_focused_widget
                 /\ \A n \in Ids : is_focused(n)' <=> (n = next_focused_widget) ]_vars

\* Widget 3 is focused, widget 2 was staged, and widget 3 staged itself again.
C4_Witness ==
    /\ is_focused(3)
    /\ last_call = [op |-> "request_focus", id |-> 3, arg |-> 2]
    /\ next_focused_widget = 3

RECURSIVE AncestorsOrSelf(_, _)
AncestorsOrSelf(arena, n) ==
    IF n = None \/ arena[n] = Absent THEN {}
    ELSE {n} \cup AncestorsOrSelf(arena, arena[n])

\* C5: once the update pass has run after the last set_disabled, a widget is
\* disabled exactly when it or one of its ancestors is explicitly disabled.
C5_DisabledIsUnionOverAncestors ==
    last_call.op = "run_update_disabled_pass" =>
        \A n \in Present :
            is_disabled(n) <=>
                \E a \in AncestorsOrSelf(state_arena, n) : wstate[a].is_explicitly_disabled

\* The root was disabled by a call and the update pass disabled every widget.
C5_Witness ==
    /\ last_call.op = "run_update_disabled_pass"
    /\ wstate[Root].is_explicitly_disabled
    /\ \A n \in Present : is_disabled(n)
    /\ Present = Ids

NotFound == { "get_mut: child not found", "get_raw_ref: child not found",
              "get_raw_mut: child not found", "get_child_state_mut: child not found",
              "remove_child: child not found" }

\* A lookup of child from the current context.
Lookup(child) ==
    \/ GetMut(child) \/ GetRawRef(child) \/ GetRawMut(child)
    \/ RemoveChild(child)
    \/ \E stashed \in BOOLEAN : SetStashed(child, stashed)

\* C6: remove_child takes the child and its subtree out of both arenas, a widget
\* that is out stays out, and a lookup or a removal of a widget that is not a
\* child of the current one fails with not-found and changes neither arena.
C6_RemovedIsNotFound ==
    /\ [](\A n \in Ids : (state_arena[n] = Absent) <=> (widget_arena[n] = Absent))
    /\ [][ \A c \in Ids :
             /\ (state_arena[c] = Absent) => (state_arena'[c] = Absent)
             /\ (RemoveChild(c) /\ IsChild(c)) =>
                   /\ ~panicked'
                   /\ \A d \in Subtree(state_arena, c) :
                         state_arena'[d] = Absent /\ widget_arena'[d] = Absent
                   /\ \A n \in Ids \ Subtree(state_arena, c) :
                         state_arena'[n] = state_arena[n] /\ widget_arena'[n] = widget_arena[n]
             /\ (Lookup(c) /\ ~IsChild(c)) =>
                   /\ panicked'
                   /\ violation' \subseteq NotFound /\ violation' # {}
                   /\ state_arena' = state_arena /\ widget_arena' = widget_arena
                   /\ wstate' = wstate /\ ctx_stack' = ctx_stack ]_vars

\* Widget 2 was removed from the root, widget 3 was not, and a second
\* remove_child on the root failed with not-found.
C6_Witness ==
    /\ panicked /\ violation = {"remove_child: child not found"}
    /\ Cur = Root
    /\ state_arena[2] = Absent /\ state_arena[4] = Absent
    /\ state_arena[3] = Root

ChildrenChangedFlags(s) ==
    s.children_changed /\ s.update_focus_chain /\ s.request_layout /\ s.needs_layout

\* C8: children_changed and a successful remove_child set children_changed,
\* update_focus_chain, request_layout and needs_layout on the calling widget.
C8_ChildrenChangedFlags ==
    [][ /\ ChildrenChanged => ChildrenChangedFlags(wstate'[Cur])
        /\ \A c \in Ids : (RemoveChild(c) /\ IsChild(c)) => ChildrenChangedFlags(wstate'[Cur])
      ]_vars

\* Widget 4 was removed by its parent, widget 2, which has the four flags.
C8_Witness ==
    /\ ~panicked
    /\ state_arena[4] = Absent /\ state_arena[2] = Root
    /\ ChildrenChangedFlags(wstate[2])
    /\ ~wstate[2].needs_paint

\* C9: mutate_self_later and mutate_later queue their callback last, tagged with
\* the caller's id and the child's id; the queue is drained only between passes,
\* a pass begins only on an empty queue, and the drain runs the callbacks in
\* the order they were queued.
C9_CallbacksInOrder ==
    [][ /\ MutateSelfLater => mutate_callbacks' = Append(mutate_callbacks, Cur)
        /\ \A c \in Ids : (MutateLater(c) /\ IsChild(c)) =>
               mutate_callbacks' = Append(mutate_callbacks, c)
        /\ (pass = "none" /\ pass' # "none") => mutate_callbacks = <<>>
        /\ (mutate_callbacks # <<>> /\ Len(mutate_callbacks') < Len(mutate_callbacks)) =>
               /\ pass = "none" /\ pass' = "none"
               /\ executed' = mutate_callbacks
               /\ mutate_callbacks' = <<>> ]_vars

\* Callbacks for widgets 2, 3, 2 were queued in that order and ran in that order.
C9_Witness ==
    /\ executed = <<2, 3, 2>>
    /\ mutate_callbacks = <<>>

\* C10: a place_child that returns records the origin and sets
\* translation_changed when the origin differs from the recorded one, and
\* changes neither when it is equal; set_child_translation does the same for
\* the translation and leaves the origin, so that the child's position is the
\* placed origin plus the translation.
C10_PlaceAndTranslate ==
    [][ /\ \A c \in Ids, o \in Origins :
             (PlaceChild(c, o) /\ IsChild(c) /\ ~panicked') =>
                IF point_ne(o, wstate[c].origin)
                THEN wstate'[c].origin = o /\ wstate'[c].translation_changed
                ELSE /\ wstate'[c].origin = wstate[c].origin
                     /\ wstate'[c].translation_changed = wstate[c].translation_changed
        /\ \A c \in Ids, v \in Translations :
             (SetChildTranslation(c, v) /\ IsChild(c) /\ ~panicked') =>
                /\ wstate'[c].origin = wstate[c].origin
                /\ effective_origin(wstate'[c]) = point_add(wstate[c].origin, v)
                /\ IF point_ne(v, wstate[c].translation)
                   THEN wstate'[c].translation = v /\ wstate'[c].translation_changed
                   ELSE /\ wstate'[c].translation = wstate[c].translation
                        /\ wstate'[c].translation_changed = wstate[c].translation_changed
      ]_vars

\* A child was placed at (1, 0) and translated by (0, 1): it is at (1, 1).
C10_Witness ==
    /\ ~panicked
    /\ \E c \in Ids :
          /\ wstate[c].origin = Pt(1, 0)
          /\ wstate[c].translation = Pt(0, 1)
          /\ wstate[c].translation_changed
          /\ effective_origin(wstate[c]) = Pt(1, 1)

\* C11: the widget arena and the state arena hold the same ids under the same
\* parents, whatever was registered and removed.
C11_ArenasAgree ==
    \A n \in Ids : widget_arena[n] = state_arena[n]

\* A widget was registered (its state is still the new one) and another one,
\* which is not waiting to be registered, was removed.
C11_Witness ==
    /\ ~panicked
    /\ \E c \in Ids, r \in Ids :
          /\ state_arena[c] # Absent /\ widget_arena[c] # Absent /\ wstate[c] = NewState
          /\ state_arena[r] = Absent /\ widget_arena[r] = Absent /\ r \notin pending

\* The live contexts form one path down the tree: each was opened from the one
\* before it, for one of its children.
ExclusivePath ==
    \A i \in 1..(Len(ctx_stack) - 1) :
        /\ get_child(state_arena, ctx_stack[i].id, ctx_stack[i + 1].id)
        /\ \A j \in (i + 1)..Len(ctx_stack) : ctx_stack[j].id # ctx_stack[i].id

\* C12: the live mutable scopes form one path down the tree, so no widget is
\* reached by two of them; a scope is opened only from the innermost live scope,
\* for one of its children, and the scope below becomes the innermost again only
\* when that one is dropped; narrowing a QueryCtx keeps the scope it was narrowed
\* from.
C12_OneExclusivePath ==
    /\ []ExclusivePath
    /\ [][ (pass' = pass /\ ctx_stack' # ctx_stack) =>
              \/ /\ Len(ctx_stack') = Len(ctx_stack) + 1
                 /\ SubSeq(ctx_stack', 1, Len(ctx_stack)) = ctx_stack
                 /\ get_child(state_arena, Cur, ctx_stack'[Len(ctx_stack')].id)
              \/ ctx_stack' = SubSeq(ctx_stack, 1, Len(ctx_stack) - 1) ]_vars
    /\ [][ \A q \in Ids, c \in Ids :
              (QueryGet(q, c) /\ ~panicked') => query_scopes' = query_scopes \cup {c} ]_vars

\* In an event pass the root opened a scope on widget 2, which opened one on
\* widget 4 and changed it: the two scopes below are not usable.
C12_Witness ==
    /\ pass = "event" /\ ~panicked
    /\ Len(ctx_stack) = 3
    /\ ctx_stack[2].id = 2 /\ ctx_stack[2].wrapper = "RawWrapperMut"
    /\ ctx_stack[3].id = 4 /\ ctx_stack[3].wrapper = "RawWrapperMut"
    /\ wstate[4].needs_paint /\ ~wstate[2].needs_paint

\* C13: capture_pointer on an event that does not allow pointer capture either
\* aborts or does nothing: the capture stays with whoever held it and the caller
\* does not get it.
C13_CaptureNeedsPermission ==
    [][ (CapturePointer /\ ~allow_pointer_capture) =>
            /\ panicked' \/ pointer_capture_target' = pointer_capture_target
            /\ pointer_capture_target # Cur => pointer_capture_target' # Cur ]_vars

\* C14 (as stated): resign_focus by a widget that is not the focused widget only
\* logs a warning and leaves the staged and the committed focus alone; by the
\* focused widget it clears the staged target and leaves the committed one.
C14_ResignOnlyByFocused ==
    [][ ResignFocus =>
            /\ focused_widget' = focused_widget
            /\ IF is_focused(Cur)
               THEN next_focused_widget' = None
               ELSE next_focused_widget' = next_focused_widget /\ violation' # {} ]_vars

\* C14 (amended): resign_focus tests has_focus(), which is true of the focused
\* widget and of each of its ancestors: a caller without it only logs a warning
\* and leaves the staged target; a caller with it clears the staged target
\* without a warning; the committed focus and the widget states are never
\* touched.
C14_ResignByFocusChain ==
    /\ [](focused_widget \in Present =>
            \A n \in Present :
                wstate[n].has_focus <=> n \in FocusChain(state_arena, focused_widget))
    /\ [][ ResignFocus =>
            /\ focused_widget' = focused_widget
            /\ wstate' = wstate
            /\ ~panicked'
            /\ IF wstate[Cur].has_focus
               THEN next_focused_widget' = None /\ violation' = {}
               ELSE next_focused_widget' = next_focused_widget /\ violation' # {} ]_vars

\* Widget 4 is focused and is the staged target; its parent, widget 2, resigns:
\* the staged target is cleared, no warning.
C14_Witness ==
    /\ last_call = [op |-> "resign_focus", id |-> 2, arg |-> 4]
    /\ focused_widget = 4 /\ 4 \in Present
    /\ wstate[2].has_focus /\ ~is_focused(2)
    /\ next_focused_widget = None /\ violation = {}

\* The step sets every flag of `flags` on the current widget and changes nothing
\* else in any widget's state.
SetsExactly(flags) ==
    /\ \A f \in flags : wstate'[Cur][f] = TRUE
    /\ \A f \in (DOMAIN wstate[Cur]) \ flags : wstate'[Cur][f] = wstate[Cur][f]
    /\ \A n \in Ids \ {Cur} : wstate'[n] = wstate[n]

\* C15: each request setter sets its documented flags on the current widget and
\* changes no other flag, of this widget or of another; none clears a flag.
C15_SettersSetExactly ==
    [][ /\ RequestRender => SetsExactly({"request_paint", "needs_paint",
                                         "request_accessibility", "needs_accessibility"})
        /\ RequestPaintOnly => SetsExactly({"request_paint", "needs_paint"})
        /\ RequestAccessibilityUpdate =>
               SetsExactly({"request_accessibility", "needs_accessibility"})
        /\ RequestLayout => SetsExactly({"request_layout", "needs_layout"})
        /\ RequestCompose => SetsExactly({"request_compose", "needs_compose"})
        /\ RequestAnimFrame => SetsExactly({"request_anim", "needs_anim"})
        /\ (pass \in FlagCtxs /\ pass' = pass /\ ctx_stack' = ctx_stack) =>
               \A n \in Ids, f \in NeedsFlags \cup RequestFlags :
                   wstate[n][f] => wstate'[n][f] ]_vars

\* Widget 2 requested accessibility, then paint only: all four flags are set on
\* it, and nothing on its child.
C15_Witness ==
    /\ pass \in FlagCtxs /\ ~panicked /\ Cur = 2 /\ n_ops = 2
    /\ wstate[2] = request_paint_only(request_accessibility_update(CleanState(FALSE, FALSE)))
    /\ wstate[2].needs_accessibility /\ wstate[2].needs_paint /\ ~wstate[2].needs_layout
    /\ wstate[4] = CleanState(FALSE, FALSE)

\* C16: when run_layout on a child returns, the child's size is the returned
\* size, its needs_layout is false and its is_expecting_place_child_call is true.
C16_RunLayoutRecords ==
    [][ \A size \in Sizes :
            (RunLayoutReturn(size) /\ ~panicked') =>
                /\ wstate'[Cur].size = size
                /\ ~wstate'[Cur].needs_layout
                /\ wstate'[Cur].is_expecting_place_child_call ]_vars

\* Widget 2 requested a layout in an event pass and the layout pass has run its
\* layout, which returned a size other than the one it had.
C16_Witness ==
    /\ pass = "layout" /\ ~panicked /\ Cur = Root
    /\ 2 \in laid_out
    /\ wstate[2].request_layout
    /\ wstate[2].size # CleanState(FALSE, FALSE).size
    /\ ~wstate[2].needs_layout /\ wstate[2].is_expecting_place_child_call

IsFinite(p) == ~(IsNan(p.x) \/ IsInfinite(p.x) \/ IsNan(p.y) \/ IsInfinite(p.y))

\* C17: no widget's recorded origin is ever a point with a NaN or infinite
\* coordinate, and neither is its recorded translation: place_child and
\* set_child_translation fail on such a point and record nothing.
C17_RecordedPointsFinite ==
    \A n \in Ids : IsFinite(wstate[n].origin) /\ IsFinite(wstate[n].translation)

\* What an accessor called on child c reported: whether, and whether it panicked
\* as a debug build does; it changed no widget state.
Reported(c, expected) ==
    /\ (violation' # {}) <=> expected
    /\ panicked' <=> (debug_assertions /\ expected)
    /\ wstate' = wstate

\* C18 (as stated): each of the five layout accessors reports a contract
\* violation unless the child's layout was computed and the child was placed.
C18_AccessorsNeedPlacement ==
    [][ \A c \in Ids :
          ( /\ \/ ChildSize(c) \/ ChildBaselineOffset(c) \/ ChildLayoutRect(c)
               \/ ChildPaintRect(c) \/ ComputeInsetsFromChild(c)
            /\ IsChild(c)
            /\ wstate[c].needs_layout \/ wstate[c].is_expecting_place_child_call )
          => violation' # {} ]_vars

\* C18 (amended): child_layout_rect, child_paint_rect and
\* compute_insets_from_child report a contract violation exactly when the child's
\* layout is not computed or the child is not placed; child_size and
\* child_baseline_offset report one exactly when the child's layout is not
\* computed, placed or not. The report is a panic in a debug build and a logged
\* error in a release build; no accessor changes a widget's state.
C18_AccessorChecks ==
    [][ \A c \in Ids :
          /\ ((ChildLayoutRect(c) \/ ChildPaintRect(c) \/ ComputeInsetsFromChild(c))
                /\ IsChild(c))
               => Reported(c, wstate[c].needs_layout
                               \/ wstate[c].is_expecting_place_child_call)
          /\ ((ChildSize(c) \/ ChildBaselineOffset(c)) /\ IsChild(c))
               => Reported(c, wstate[c].needs_layout) ]_vars

\* The root ran the layout of widget 2 and asked for its size before placing it:
\* nothing is reported.
C18_Witness ==
    /\ pass = "layout" /\ ~panicked /\ violation = {}
    /\ last_call = [op |-> "child_size", id |-> Root, arg |-> 2]
    /\ 2 \in laid_out
    /\ ~wstate[2].needs_layout /\ wstate[2].is_expecting_place_child_call

\* C19: no step taken on a QueryCtx, a PaintCtx or an AccessCtx, narrowing to a
\* child with QueryCtx::get or AccessCtx::get_raw_ref included, changes a field
\* of a widget's state or the shape of the tree.
C19_ReadOnlyContexts ==
    [][ (pass \in ReadOnlyCtxs) =>
            /\ wstate' = wstate
            /\ state_arena' = state_arena
            /\ widget_arena' = widget_arena ]_vars

\* Widget 2 is explicitly disabled. A QueryCtx on the root was narrowed to
\* widgets 2 and 3 and from 2 to widget 4, all four scopes are live, and
\* is_disabled on widget 4 answered true; the widgets are as they were.
C19_Witness ==
    /\ pass = "query" /\ ~panicked
    /\ query_scopes = {1, 2, 3, 4}
    /\ last_call = [op |-> "is_disabled", id |-> 4, arg |-> 1]
    /\ wstate = [n \in Ids |-> CleanState(n = 2, n \in {2, 4})]

\* C20: register_child on a child that is still pending inserts it under the
\* registering widget in each arena, with a fresh state, and records its id once
\* (the ids are tracked in a debug build); on a child that is already registered
\* it changes nothing. So no id is recorded twice, and every recorded id is in
\* both arenas under the registering widget and pending no more.
C20_RegisterOnce ==
    /\ [](\A i, j \in DOMAIN registered_ids :
            i # j => registered_ids[i] # registered_ids[j])
    /\ [](pass = "register" =>
            \A i \in DOMAIN registered_ids :
                /\ state_arena[registered_ids[i]] = Cur
                /\ widget_arena[registered_ids[i]] = Cur
                /\ registered_ids[i] \notin pending)
    /\ [][ \A c \in Ids :
             RegisterChild(c) =>
                IF c \in pending
                THEN /\ state_arena' = [state_arena EXCEPT ![c] = Cur]
                     /\ widget_arena' = [widget_arena EXCEPT ![c] = Cur]
                     /\ wstate' = [wstate EXCEPT ![c] = NewState]
                     /\ pending' = pending \ {c}
                     /\ debug_assertions => registered_ids' = Append(registered_ids, c)
                ELSE UNCHANGED <<arenas, wstate, pending, registered_ids>> ]_vars

\* Debug build, registration below the root: register_child was called twice,
\* once on widget 2, which was pending, and once on a registered child: widget 2
\* is recorded once.
C20_Witness ==
    /\ debug_assertions /\ pass = "register" /\ Cur = Root /\ ~panicked
    /\ n_ops = 2
    /\ registered_ids = <<2>>
    /\ state_arena[2] = Root /\ wstate[2] = NewState
    /\ state_arena[3] = Root /\ 4 \in pending

\* C21: after remove_child took a widget and its subtree out, neither the
\* focused widget nor the staged focus target is one of the removed widgets.
C21_RemovedNotFocused ==
    [][ \A c \in Ids :
          (RemoveChild(c) /\ ~panicked') =>
              \A r \in Subtree(state_arena, c) :
                  focused_widget' # r /\ next_focused_widget' # r ]_vars

\* C22: when remove_child returns, the scene store holds no entry for the
\* removed child nor for any widget of its subtree.
C22_ScenesReleased ==
    [][ \A c \in Ids :
          (RemoveChild(c) /\ ~panicked') =>
              scenes' \cap Subtree(state_arena, c) = {} ]_vars

\* Both the paint pair and the accessibility pair are set in widget state s.
PaintAndAccessibilityDirty(s) ==
    /\ s.needs_paint /\ s.request_paint
    /\ s.needs_accessibility /\ s.request_accessibility

\* C23: after set_clip_path(path) the widget's clip path is path, after
\* clear_clip_path it has none, and after either the widget has needs_paint,
\* request_paint, needs_accessibility and request_accessibility set.
C23_ClipPathMarksDirty ==
    [][ /\ \A path \in ClipPaths :
              SetClipPath(path) =>
                  /\ wstate'[Cur].clip_path = path
                  /\ PaintAndAccessibilityDirty(wstate'[Cur])
        /\ ClearClipPath =>
              /\ wstate'[Cur].clip_path = None
              /\ PaintAndAccessibilityDirty(wstate'[Cur]) ]_vars

\* A call of a request setter, children_changed, remove_child or set_disabled.
UpdateFlagsCall ==
    \/ RequestRender \/ RequestPaintOnly \/ RequestAccessibilityUpdate
    \/ RequestLayout \/ RequestCompose \/ RequestAnimFrame
    \/ ChildrenChanged
    \/ \E child \in Ids : RemoveChild(child)
    \/ \E disabled \in BOOLEAN : SetDisabled(disabled)

\* A context of the pass is live and may still make a call.
CanCall == pass # "none" /\ Live /\ n_ops < MaxOps

\* C24 (as stated): the request setters, children_changed, remove_child and
\* set_disabled can be called on a context of each of the five mutating kinds,
\* and the geometry and status getters on a context of each of the eight kinds.
C24_AvailableOnEveryContext ==
    CanCall =>
        /\ pass \in MutCtxs =>
              /\ ENABLED RequestRender /\ ENABLED RequestPaintOnly
              /\ ENABLED RequestAccessibilityUpdate /\ ENABLED RequestLayout
              /\ ENABLED RequestCompose /\ ENABLED RequestAnimFrame
              /\ ENABLED ChildrenChanged
              /\ ENABLED (\E child \in Ids : RemoveChild(child))
              /\ ENABLED SetDisabled(TRUE)
        /\ pass \in AllCtxs => ENABLED GetSize /\ ENABLED IsStashed

\* C24 (amended): the request setters, children_changed, remove_child and
\* set_disabled can be called on a MutateCtx, an EventCtx and an UpdateCtx and on
\* no other context; the geometry and status getters on every context except a
\* LayoutCtx; widget_id on all eight.
C24_MethodAvailability ==
    /\ [](CanCall =>
            /\ pass \in {"mutate", "event", "update"} <=> ENABLED UpdateFlagsCall
            /\ pass \in {"mutate", "event", "update"} <=> ENABLED RequestLayout
            /\ pass \in {"mutate", "event", "update"} <=> ENABLED SetDisabled(TRUE)
            /\ pass # "layout" <=> ENABLED GetSize
            /\ pass # "layout" <=> ENABLED IsStashed
            /\ ENABLED WidgetId)
    /\ [][ /\ UpdateFlagsCall => pass \in {"mutate", "event", "update"}
           /\ (GetSize \/ IsStashed) => pass \in AllCtxs \ {"layout"}
           /\ WidgetId => pass \in AllCtxs ]_vars

\* In a compose pass the root read is_stashed, after it requested a layout in
\* an earlier pass.
C24_Witness ==
    /\ pass = "compose" /\ ~panicked
    /\ last_call = [op |-> "is_stashed", id |-> Root, arg |-> 0]
    /\ wstate[Root].request_layout /\ n_ops = 1

\* The layout method of the current widget returns: to run_layout_on, or, for
\* the root, to the layout pass.
LayoutReturns ==
    \/ pass = "layout" /\ EndPass
    \/ \E size \in Sizes : RunLayoutReturn(size)

MissingPlaceChild == "layout: missing call to place_child"

\* C25: when a widget's layout returns while a child whose layout it ran in this
\* pass, and that is not stashed, is still expecting its place_child call, a
\* contract violation is reported (a debug build panics and the layout does not
\* return); so a layout that returns without a report has placed every such
\* child. A layout that left no child expecting placement reports nothing.
C25_LaidOutChildrenArePlaced ==
    [][ LayoutReturns =>
          LET forgot == { c \in Children(state_arena, Cur) :
                            /\ c \in laid_out
                            /\ wstate[c].is_expecting_place_child_call
                            /\ ~wstate[c].is_stashed }
          IN  /\ forgot # {} =>
                    /\ MissingPlaceChild \in violation'
                    /\ debug_assertions =>
                          panicked' /\ pass' = pass /\ ctx_stack' = ctx_stack
              /\ (\A c \in Children(state_arena, Cur) :
                     ~wstate[c].is_expecting_place_child_call) =>
                    ~panicked' /\ MissingPlaceChild \notin violation' ]_vars

\* Debug build: the root ran the layout of widget 2 and returned without
\* placing it.
C25_Witness ==
    /\ debug_assertions /\ pass = "layout" /\ Len(ctx_stack) = 1
    /\ panicked /\ violation = {MissingPlaceChild}
    /\ 2 \in laid_out
    /\ wstate[2].is_expecting_place_child_call /\ ~wstate[2].is_stashed

C27_SetStashedPropagates ==
    [][ \A c \in Ids, v \in BOOLEAN :
          (SetStashed(c, v) /\ IsChild(c) /\ wstate[c].is_explicitly_stashed # v) =>
              /\ wstate'[c].needs_update_stashed
              /\ wstate'[Cur].needs_update_stashed ]_vars

\* C28: set_stashed(child, stashed) changes nothing when the child's
\* is_explicitly_stashed already is `stashed`; otherwise it sets the child's
\* is_explicitly_stashed to `stashed` and its needs_update_stashed, and nothing
\* else: no request_layout or needs_layout, on the child or on the caller. A
\* second call with the same value changes nothing.
C28_SetStashed ==
    [][ \A c \in Ids, v \in BOOLEAN :
          (SetStashed(c, v) /\ IsChild(c)) =>
              /\ ~panicked'
              /\ IF wstate[c].is_explicitly_stashed = v
                 THEN wstate' = wstate
                 ELSE wstate' = [wstate EXCEPT ![c].is_explicitly_stashed = v,
                                               ![c].needs_update_stashed = TRUE]
              /\ \A n \in {c, Cur} :
                    /\ wstate'[n].request_layout = wstate[n].request_layout
                    /\ wstate'[n].needs_layout = wstate[n].needs_layout
              /\ set_stashed(wstate'[c], v) = wstate'[c] ]_vars

\* The root called set_stashed on widget 2 twice, and widget 2 is stashed with
\* the update requested; no layout is requested anywhere.
C28_Witness ==
    /\ pass \in MutCtxs /\ ~panicked /\ Cur = Root /\ n_ops = 2
    /\ Present = Ids
    /\ wstate[2] = [CleanState(FALSE, FALSE) EXCEPT !.is_explicitly_stashed = TRUE,
                                                    !.needs_update_stashed = TRUE]
    /\ \A n \in Ids \ {2} : wstate[n] = CleanState(FALSE, FALSE)

\* C29: set_disabled(disabled) only stages the change: it sets the current
\* widget's is_explicitly_disabled to `disabled` and its needs_update_disabled,
\* also when the value is the one it had, and changes nothing else, so that
\* is_disabled() of every widget is what it was until the update pass runs. When
\* the last call was set_disabled(false) on a widget with an explicitly disabled
\* ancestor, the widget is disabled after the update pass.
C29_SetDisabledStages ==
    /\ [][ \A d \in BOOLEAN :
             SetDisabled(d) =>
                 /\ wstate' = [wstate EXCEPT ![Cur].is_explicitly_disabled = d,
                                             ![Cur].needs_update_disabled = TRUE]
                 /\ \A n \in Ids : wstate'[n].is_disabled = wstate[n].is_disabled ]_vars
    /\ [][ ( /\ RunUpdateDisabledPass
             /\ last_call.op = "set_disabled" /\ last_call.arg = 0
             /\ last_call.id \in Present
             /\ \E a \in AncestorsOrSelf(state_arena, last_call.id) \ {last_call.id} :
                    wstate[a].is_explicitly_disabled ) =>
               /\ ~wstate'[last_call.id].is_explicitly_disabled
               /\ wstate'[last_call.id].is_disabled ]_vars

\* Widget 4, disabled and below the explicitly disabled widget 2, was the last to
\* call set_disabled, with false; the pass is over and the update pass is next.
C29_Witness ==
    /\ pass = "none" /\ ~panicked
    /\ last_call = [op |-> "set_disabled", id |-> 4, arg |-> 0]
    /\ 4 \in Present
    /\ wstate[2].is_explicitly_disabled
    /\ ~wstate[4].is_explicitly_disabled /\ wstate[4].needs_update_disabled
    /\ is_disabled(4)
    /\ ENABLED RunUpdateDisabledPass

\* The end of a mutable scope over a child: a WidgetMut or a RawWrapperMut is
\* dropped.
MutableScopeExit == DropWrapper /\ Top.wrapper \in {"WidgetMut", "RawWrapperMut"}

\* The merge of `flags` on the exit of a mutable child scope: each of them is
\* the parent's OR the child's, nothing else of the parent changes, no other
\* widget's state changes, and a second merge of the same child changes nothing.
MergeIsMonotonicOr(flags) ==
    MutableScopeExit =>
        LET p == ParentFrame.id
            c == Cur
        IN  /\ \A f \in flags : wstate'[p][f] = (wstate[p][f] \/ wstate[c][f])
            /\ \A f \in (DOMAIN wstate[p]) \ flags : wstate'[p][f] = wstate[p][f]
            /\ \A n \in Ids \ {p} : wstate'[n] = wstate[n]
            /\ merge_up(wstate'[p], wstate'[c]) = wstate'[p]

C31_ReleasePointer ==
    [][ /\ (pass = "event" /\ Live /\ CanMutate) => ENABLED ReleasePointer
        /\ ReleasePointer =>
              /\ pointer_capture_target' = None
              /\ ~panicked'
              /\ UNCHANGED <<arenas, wstate, focused_widget, next_focused_widget,
                             mutate_callbacks, scenes, ctx_stack, pass,
                             allow_pointer_capture>> ]_vars

\* Widget 2 released the pointer while the root held the capture.
C31_Witness ==
    /\ last_call = [op |-> "release_pointer", id |-> 2, arg |-> Root]
    /\ pointer_capture_target = None
    /\ pass = "event" /\ ~panicked

\* C32: the handled flag of an event is never lost. When the RawWrapperMut of a
\* child is dropped and the child's context has the event handled, is_handled()
\* on the parent's context is true; and on a context that stays live is_handled
\* never goes from true to false.
C32_HandledNeverLost ==
    [][ /\ (pass = "event" /\ DropWrapper /\ Top.wrapper = "RawWrapperMut"
              /\ Top.is_handled) =>
                ctx_stack'[Len(ctx_stack')].is_handled
        /\ (pass = "event" /\ pass' = "event" /\ Len(ctx_stack') >= Len(ctx_stack)) =>
                \A i \in 1..Len(ctx_stack) :
                    ctx_stack[i].is_handled => ctx_stack'[i].is_handled ]_vars

\* f64 `<=`: false when an operand is NaN.
FLe(a, b) == ~IsNan(a) /\ ~IsNan(b) /\ a <= b

\* Rectangle r contains rectangle q.
RectContains(r, q) ==
    /\ FLe(r.x0, q.x0) /\ FLe(r.y0, q.y0)
    /\ FLe(q.x1, r.x1) /\ FLe(q.y1, r.y1)

\* The parent's local paint rect after a place_child of c that returned is the
\* union of what it was and c's paint rect.
PlacedIsUnion(c) ==
    wstate'[Cur].local_paint_rect =
        rect_union(wstate[Cur].local_paint_rect, paint_rect(wstate'[c]))

\* C33: place_child(c, origin) only grows the parent's local paint rect: after
\* the call it is the union of its previous value and c's paint rect, it
\* contains its previous value and it contains c's paint rect.
C33_PlaceChildGrowsPaintRect ==
    [][ \A c \in Ids, o \in Origins :
          (PlaceChild(c, o) /\ IsChild(c) /\ ~panicked') =>
              /\ PlacedIsUnion(c)
              /\ RectContains(wstate'[Cur].local_paint_rect, wstate[Cur].local_paint_rect)
              /\ RectContains(wstate'[Cur].local_paint_rect, paint_rect(wstate'[c])) ]_vars

\* C34: on every widget, whatever request setters, children_changed,
\* remove_child, set_clip_path, clear_clip_path and skip_layout were called, each
\* request flag implies its needs flag.
C34_RequestImpliesNeeds ==
    \A n \in Ids :
        /\ wstate[n].request_paint => wstate[n].needs_paint
        /\ wstate[n].request_accessibility => wstate[n].needs_accessibility
        /\ wstate[n].request_layout => wstate[n].needs_layout
        /\ wstate[n].request_compose => wstate[n].needs_compose
        /\ wstate[n].request_anim => wstate[n].needs_anim

\* In a layout pass the root skipped the layout of widget 2, which had one
\* requested, and set its own clip path: widget 2 needs a layout it no longer
\* requests, and the root needs a paint it did not request.
C34_Witness ==
    /\ pass = "layout" /\ Live /\ Cur = Root
    /\ last_call.op = "set_clip_path" /\ last_call.id = Root
    /\ wstate[2].needs_layout /\ ~wstate[2].request_layout
    /\ wstate[Root].clip_path \in ClipPaths
    /\ wstate[Root].needs_paint /\ ~wstate[Root].request_paint
    /\ wstate[Root].request_accessibility /\ wstate[Root].needs_accessibility

====
